---- MODULE Spec2Model ----
(***************************************************************************)
(* A model of bino's media_input (src/src/media_input.cpp): the layer that *)
(* aggregates several media objects into one input with flattened video    *)
(* and audio streams, a stereo layout, paired frame reads and seeks.       *)
(*                                                                         *)
(* Indices are those of the C++ code (0-based); TLA+ sequences are 1-based,*)
(* so element i of a vector v is v[i + 1].  Assertions are modelled as in  *)
(* a build without NDEBUG: a failed assert aborts the program.             *)
(***************************************************************************)
EXTENDS Integers, Sequences, FiniteSets, TLC

\* ------------------------------------------------------------------ bounds
MaxSources == 2
MaxVideoStreams == 2
MaxAudioStreams == 2
MaxPos == 1

\* ------------------------------------------------------- program constants
\* std::numeric_limits<int64_t>::max() and ::min(), scaled to 32 bits; every
\* duration and position of the model lies strictly between them.
INT64_MAX == 2147483647
INT64_MIN == -2147483647

StereoLayouts ==
    {"mono", "separate", "left_right", "left_right_half",
     "top_bottom", "top_bottom_half", "even_odd_rows"}

\* ----------------------------------------------------- frames and templates
\* video_frame: the fields media_input reads or writes.  data is the pair of
\* views' plane pointers (the three planes of a view are copied together);
\* "null" is an unset view.
VideoFrame(w, h, ar, lay, cs, vr, cl, rw, rh, sl, sw) ==
    [width |-> w, height |-> h, aspect_ratio |-> ar, layout |-> lay,
     color_space |-> cs, value_range |-> vr, chroma_location |-> cl,
     raw_width |-> rw, raw_height |-> rh,
     stereo_layout |-> sl, stereo_layout_swap |-> sw,
     data |-> <<"null", "null">>, presentation_time |-> INT64_MIN,
     valid |-> TRUE]

\* video_frame(): the default-constructed, invalid frame.
DefaultVideoFrame ==
    [VideoFrame(-1, -1, 0, "bgra32", "srgb", "u8_full", "center", -1, -1, "mono", FALSE)
        EXCEPT !.valid = FALSE]

is_valid(f) == f.valid

\* video_frame::set_view_dimensions(): the view's size from the raw size
\* and the stereo layout.
set_view_dimensions(f) ==
    [f EXCEPT
        !.width = IF f.stereo_layout \in {"left_right", "left_right_half"}
                  THEN f.raw_width \div 2 ELSE f.raw_width,
        !.height = IF f.stereo_layout \in {"top_bottom", "top_bottom_half"}
                   THEN f.raw_height \div 2 ELSE f.raw_height]

\* The video frame templates the media objects of the model offer.  A media
\* object only advertises a stereo layout its raw size allows, and never
\* 'separate' (which needs two streams).
TemplateA == VideoFrame(4, 4, 1, "yuv420p", "yuv601", "u8_mpeg", "center", 4, 4, "mono", FALSE)
TemplateB == VideoFrame(5, 4, 1, "yuv420p", "yuv601", "u8_mpeg", "center", 5, 4, "mono", FALSE)
TemplateC == VideoFrame(4, 4, 1, "yuv420p", "yuv601", "u8_mpeg", "center", 8, 4, "left_right", FALSE)

\* audio_blob: channels, rate, sample format.
AudioBlob(c, r, f) == [channels |-> c, rate |-> r, sample_format |-> f, valid |-> TRUE]
DefaultAudioBlob == [AudioBlob(-1, -1, "u8") EXCEPT !.valid = FALSE]
AudioA == AudioBlob(2, 48000, "s16")
AudioB == AudioBlob(6, 44100, "f32")

\* Strings are sequences of tokens, so that concatenation (\o), comparison
\* and the search for a path separator are those of std::string.
Str(tok) == <<tok>>
EmptyString == << >>

\* The URL of the i-th argument of open().
Url(i) ==
    IF i % 2 = 0 THEN <<"movies", "/", "view" \o ToString(i)>>
    ELSE <<"c:", "\\", "movies", "\\", "view" \o ToString(i)>>

\* ---------------------------------------------- media_object (consumed API)
\* A media object that was constructed but not opened.
ClosedMediaObject ==
    [is_open |-> FALSE, url |-> EmptyString, tags |-> << >>,
     v |-> << >>, a |-> << >>, vactive |-> << >>, aactive |-> << >>,
     vreading |-> << >>, areading |-> << >>, pos |-> INT64_MIN]

\* media_object::open(url) on a file holding the streams and tags of src.
mo_open(src, url) ==
    [is_open |-> TRUE, url |-> url, tags |-> src.tags,
     v |-> src.v, a |-> src.a,
     vactive |-> [j \in DOMAIN src.v |-> TRUE],
     aactive |-> [j \in DOMAIN src.a |-> TRUE],
     vreading |-> [j \in DOMAIN src.v |-> FALSE],
     areading |-> [j \in DOMAIN src.a |-> FALSE],
     pos |-> INT64_MIN]

mo_video_streams(m) == Len(m.v)
mo_audio_streams(m) == Len(m.a)
mo_video_frame_template(m, j) == m.v[j + 1].t
mo_audio_blob_template(m, j) == m.a[j + 1].t
mo_video_duration(m, j) == m.v[j + 1].d
mo_audio_duration(m, j) == m.a[j + 1].d

\* What a call that returns an int can come to: a value, or the end of the
\* process.  A call whose behaviour is undefined (an index outside a
\* vector) can come to any of them.
Outcome(n) == [crash |-> FALSE, value |-> n]
Crash == [crash |-> TRUE, value |-> 0]
AnyInt == {0, 1, 24, 25, 30}
Undefined == {Crash} \cup {Outcome(n) : n \in AnyInt}

\* media_object::video_frame_rate_numerator(j) and _denominator(j): the
\* rate of video stream j, which must exist.
mo_video_frame_rate_numerator(m, j) ==
    IF j >= 0 /\ j < Len(m.v) THEN {Outcome(m.v[j + 1].fr.num)} ELSE Undefined
mo_video_frame_rate_denominator(m, j) ==
    IF j >= 0 /\ j < Len(m.v) THEN {Outcome(m.v[j + 1].fr.den)} ELSE Undefined
mo_video_stream_set_active(m, j, active) == [m EXCEPT !.vactive[j + 1] = active]
mo_audio_stream_set_active(m, j, active) == [m EXCEPT !.aactive[j + 1] = active]
mo_tell(m) == m.pos
mo_seek(m, pos) == [m EXCEPT !.pos = pos]
mo_start_video_frame_read(m, s) == [m EXCEPT !.vreading[s + 1] = TRUE]
mo_start_audio_blob_read(m, s) == [m EXCEPT !.areading[s + 1] = TRUE]

\* The position a media object reports after it delivered one more frame.
NextPos(pos) ==
    IF pos = INT64_MIN THEN 0 ELSE IF pos < MaxPos THEN pos + 1 ELSE MaxPos

\* media_object::finish_video_frame_read(s): the frame (ok = the stream had
\* one; otherwise the invalid frame) and the media object afterwards.
mo_finish_video_frame_read(m, s, ok) ==
    [frame |-> IF ok
               THEN [mo_video_frame_template(m, s) EXCEPT
                        !.data = << <<m.url, s>>, "null" >>,
                        !.presentation_time = NextPos(m.pos)]
               ELSE DefaultVideoFrame,
     m |-> [m EXCEPT !.vreading[s + 1] = FALSE,
                     !.pos = IF ok THEN NextPos(m.pos) ELSE m.pos]]

mo_finish_audio_blob_read(m, s, ok) ==
    [blob |-> IF ok THEN mo_audio_blob_template(m, s) ELSE DefaultAudioBlob,
     m |-> [m EXCEPT !.areading[s + 1] = FALSE]]

\* ---------------------------------------------------------------- inputs
\* Frame rates, as numerator and denominator.
Rate24 == [num |-> 24, den |-> 1]
Rate25 == [num |-> 25, den |-> 1]
Rate30 == [num |-> 30, den |-> 1]

\* The files open() may be given.  A stream is a template and a duration;
\* a video stream also has a frame rate.
FileA ==
    [v |-> <<[t |-> TemplateA, d |-> 10, fr |-> Rate25]>>, a |-> <<[t |-> AudioA, d |-> 10]>>,
     tags |-> <<[name |-> Str("StereoscopicSkip"), value |-> Str("5")]>>]
FileB ==
    [v |-> <<[t |-> TemplateB, d |-> 7, fr |-> Rate30]>>, a |-> << >>, tags |-> << >>]
FileC ==
    [v |-> <<[t |-> TemplateC, d |-> 10, fr |-> Rate24]>>, a |-> <<[t |-> AudioB, d |-> 5]>>,
     tags |-> <<[name |-> Str("title"), value |-> Str("right")]>>]
FileAudio ==
    [v |-> << >>, a |-> <<[t |-> AudioB, d |-> 5]>>, tags |-> << >>]
FileTwo ==
    [v |-> <<[t |-> TemplateA, d |-> 10, fr |-> Rate25],
            [t |-> TemplateC, d |-> 7, fr |-> Rate24]>>,
     a |-> <<[t |-> AudioA, d |-> 10], [t |-> AudioB, d |-> 10]>>,
     tags |-> << >>]
FileSet == {FileA, FileB, FileC, FileAudio, FileTwo}

RECURSIVE Sum(_)
Sum(seq) == IF seq = << >> THEN 0 ELSE Head(seq) + Sum(Tail(seq))

\* The arguments of open(): 1..MaxSources files holding at most
\* MaxVideoStreams video and MaxAudioStreams audio streams altogether.
Configs ==
    {files \in UNION {[1..n -> FileSet] : n \in 1..MaxSources} :
        /\ Sum([i \in DOMAIN files |-> Len(files[i].v)]) <= MaxVideoStreams
        /\ Sum([i \in DOMAIN files |-> Len(files[i].a)]) <= MaxAudioStreams}

\* ------------------------------------------------------------ media_input
\* The media_input object is handled as a record of its members, with two
\* fields that observe an operation: status ("ok", "throw": an exception
\* left the operation, "abort": an assertion failed) and calls (the seek and
\* read calls the operation made on its media objects, in order).

VARIABLES
    ndebug,                 \* the build defines NDEBUG: assert() does nothing
    id, media_objects, tag_names, tag_values,
    video_stream_names, audio_stream_names,
    active_video_stream, active_audio_stream,
    video_frame, audio_blob, initial_skip, duration,
    supports_stereo_layout_separate,
    status,                 \* how the last operation ended
    calls,                  \* the seek and read calls it made
    result                  \* what it returned

vars ==
    <<ndebug, id, media_objects, tag_names, tag_values, video_stream_names,
      audio_stream_names, active_video_stream, active_audio_stream,
      video_frame, audio_blob, initial_skip, duration,
      supports_stereo_layout_separate, status, calls, result>>

Call(op, o, arg) == [op |-> op, o |-> o, arg |-> arg]
Abort(self) == [self EXCEPT !.status = "abort"]
\* assert(cond) fails.
AssertFails(cond) == ~ndebug /\ ~cond
\* No media object's seek or open throws (otherwise: the index of the one).
NoFail == 0 - 1

\* The members as the constructor leaves them; supports is the value of the
\* member _supports_stereo_layout_separate, which no initializer sets.
media_input(supports) ==
    [id |-> EmptyString, media_objects |-> << >>,
     tag_names |-> << >>, tag_values |-> << >>,
     video_stream_names |-> << >>, audio_stream_names |-> << >>,
     active_video_stream |-> -1, active_audio_stream |-> -1,
     video_frame |-> DefaultVideoFrame, audio_blob |-> DefaultAudioBlob,
     initial_skip |-> 0, duration |-> -1,
     supports_stereo_layout_separate |-> supports,
     status |-> "ok", calls |-> << >>, result |-> [op |-> "none"]]

video_streams(self) == Len(self.video_stream_names)
audio_streams(self) == Len(self.audio_stream_names)

\* get_video_stream: the loop over the media objects from index i on.  When
\* the loop ends without a hit the outputs keep their indeterminate values
\* (o = s = -1 here); the assertion excludes that case.
RECURSIVE get_video_stream_loop(_, _, _)
get_video_stream_loop(self, i, stream) ==
    IF i >= Len(self.media_objects) THEN [o |-> -1, s |-> -1]
    ELSE IF mo_video_streams(self.media_objects[i + 1]) < stream + 1
         THEN get_video_stream_loop(self, i + 1,
                  stream - mo_video_streams(self.media_objects[i + 1]))
         ELSE [o |-> i, s |-> stream]

get_video_stream(self, stream) == get_video_stream_loop(self, 0, stream)

RECURSIVE get_audio_stream_loop(_, _, _)
get_audio_stream_loop(self, i, stream) ==
    IF i >= Len(self.media_objects) THEN [o |-> -1, s |-> -1]
    ELSE IF mo_audio_streams(self.media_objects[i + 1]) < stream + 1
         THEN get_audio_stream_loop(self, i + 1,
                  stream - mo_audio_streams(self.media_objects[i + 1]))
         ELSE [o |-> i, s |-> stream]

\* A resolution that finds the media object but always answers its first
\* stream.
get_audio_stream_first(self, stream) ==
    [get_audio_stream_loop(self, 0, stream) EXCEPT !.s = 0]

get_audio_stream(self, stream) == get_audio_stream_loop(self, 0, stream)

\* basename(url): what follows the last '/' or '\'.
LastOf(url, sep) ==
    LET hits == {k \in 1..Len(url) : url[k] = sep}
    IN IF hits = {} THEN 0 ELSE CHOOSE k \in hits : \A h \in hits : h <= k

basename(url) ==
    LET last_slash == LastOf(url, "/")
        last_backslash == LastOf(url, "\\")
        i == IF last_slash > last_backslash THEN last_slash ELSE last_backslash
    IN IF i = 0 THEN url ELSE SubSeq(url, i + 1, Len(url))

\* tag_value(tag_name): the value of the first tag of that name, or "".
tag_value(self, name) ==
    LET hits == {k \in 1..Len(self.tag_names) : self.tag_names[k] = name}
    IN IF hits = {} THEN EmptyString
       ELSE self.tag_values[CHOOSE k \in hits : \A h \in hits : k <= h]

\* str::to<int64_t>(s): the number a decimal numeral denotes; ok = FALSE
\* stands for the exception on anything else.
str_to_int64(s) ==
    IF Len(s) = 1 /\ \E n \in 0..9 : ToString(n) = s[1]
    THEN [ok |-> TRUE, value |-> CHOOSE n \in 0..9 : ToString(n) = s[1]]
    ELSE [ok |-> FALSE, value |-> 0]

\* seek(pos): the loop from media object i on; the seek of media object
\* fail throws.
RECURSIVE seek_loop(_, _, _, _)
seek_loop(self, i, pos, fail) ==
    IF i >= Len(self.media_objects) THEN self
    ELSE IF i = fail
         THEN [self EXCEPT !.calls = Append(@, Call("seek", i, pos)),
                           !.status = "throw"]
         ELSE seek_loop([self EXCEPT
                            !.media_objects[i + 1] = mo_seek(@, pos),
                            !.calls = Append(@, Call("seek", i, pos))],
                        i + 1, pos, fail)

\* A seek that passes over the media objects without an active stream.
RECURSIVE seek_active_loop(_, _, _, _)
seek_active_loop(self, i, pos, fail) ==
    IF i >= Len(self.media_objects) THEN self
    ELSE LET m == self.media_objects[i + 1]
             active == \/ \E j \in DOMAIN m.vactive : m.vactive[j]
                       \/ \E j \in DOMAIN m.aactive : m.aactive[j]
         IN IF ~active THEN seek_active_loop(self, i + 1, pos, fail)
            ELSE IF i = fail
            THEN [self EXCEPT !.calls = Append(@, Call("seek", i, pos)),
                              !.status = "throw"]
            ELSE seek_active_loop([self EXCEPT
                                      !.media_objects[i + 1] = mo_seek(@, pos),
                                      !.calls = Append(@, Call("seek", i, pos))],
                                  i + 1, pos, fail)

seek_active_only(self, pos, fail) == seek_active_loop(self, 0, pos, fail)

\* A seek that goes on to the remaining media objects after one failed and
\* reports the failure at the end.
RECURSIVE seek_on_loop(_, _, _, _)
seek_on_loop(self, i, pos, fail) ==
    IF i >= Len(self.media_objects) THEN self
    ELSE IF i = fail
         THEN seek_on_loop([self EXCEPT
                               !.calls = Append(@, Call("seek", i, pos)),
                               !.status = "throw"],
                           i + 1, pos, fail)
         ELSE seek_on_loop([self EXCEPT
                               !.media_objects[i + 1] = mo_seek(@, pos),
                               !.calls = Append(@, Call("seek", i, pos))],
                           i + 1, pos, fail)

seek_past_failure(self, pos, fail) == seek_on_loop(self, 0, pos, fail)

seek(self, pos, fail) == seek_loop(self, 0, pos, fail)

\* The assertions of stereo_layout_is_supported.
stereo_layout_is_supported_pre(self) ==
    video_streams(self) < 1
    \/ (self.active_video_stream >= 0 /\ self.active_video_stream < video_streams(self))

\* The check without the clause for 'separate'.
stereo_layout_is_supported_no_separate(self, layout, swap) ==
    IF video_streams(self) < 1 THEN FALSE
    ELSE LET p == get_video_stream(self, self.active_video_stream)
             t == mo_video_frame_template(self.media_objects[p.o + 1], p.s)
         IN ~ (\/ (layout \in {"left_right", "left_right_half"} /\ t.raw_width % 2 # 0)
               \/ (layout \in {"top_bottom", "top_bottom_half"} /\ t.raw_height % 2 # 0)
               \/ (layout = "even_odd_rows" /\ t.raw_height % 2 # 0))

\* The check made on the template of the first video stream instead of the
\* active one.
stereo_layout_is_supported_first_stream(self, layout, swap) ==
    IF video_streams(self) < 1 THEN FALSE
    ELSE LET p == get_video_stream(self, 0)
             t == mo_video_frame_template(self.media_objects[p.o + 1], p.s)
         IN ~ (\/ (layout \in {"left_right", "left_right_half"} /\ t.raw_width % 2 # 0)
               \/ (layout \in {"top_bottom", "top_bottom_half"} /\ t.raw_height % 2 # 0)
               \/ (layout = "even_odd_rows" /\ t.raw_height % 2 # 0)
               \/ (layout = "separate" /\ ~self.supports_stereo_layout_separate))

stereo_layout_is_supported(self, layout, swap) ==
    IF video_streams(self) < 1 THEN FALSE
    ELSE LET p == get_video_stream(self, self.active_video_stream)
             t == mo_video_frame_template(self.media_objects[p.o + 1], p.s)
         IN ~ (\/ (layout \in {"left_right", "left_right_half"} /\ t.raw_width % 2 # 0)
               \/ (layout \in {"top_bottom", "top_bottom_half"} /\ t.raw_height % 2 # 0)
               \/ (layout = "even_odd_rows" /\ t.raw_height % 2 # 0)
               \/ (layout = "separate" /\ ~self.supports_stereo_layout_separate))

set_stereo_layout(self, layout, swap, fail) ==
    IF AssertFails(stereo_layout_is_supported_pre(self)
                   /\ stereo_layout_is_supported(self, layout, swap))
    THEN Abort(self)
    ELSE LET p == get_video_stream(self, self.active_video_stream)
             t == mo_video_frame_template(self.media_objects[p.o + 1], p.s)
             s1 == [self EXCEPT !.video_frame =
                       set_view_dimensions([t EXCEPT !.stereo_layout = layout,
                                                     !.stereo_layout_swap = swap])]
             pos == mo_tell(self.media_objects[p.o + 1])
         IN IF layout = "separate" /\ pos > INT64_MIN
            THEN seek(s1, pos, fail)
            ELSE s1

\* The media objects with video stream j of media object i marked active
\* if <<i, j>> is in chosen, and inactive otherwise.
SetVideoActive(mos, chosen) ==
    [i \in DOMAIN mos |->
        [mos[i] EXCEPT !.vactive =
            [j \in DOMAIN mos[i].v |-> <<i - 1, j - 1>> \in chosen]]]

SetAudioActive(mos, chosen) ==
    [i \in DOMAIN mos |->
        [mos[i] EXCEPT !.aactive =
            [j \in DOMAIN mos[i].a |-> <<i - 1, j - 1>> \in chosen]]]

\* Every video stream of every media object.
AllVideoPairs(mos) ==
    UNION {{<<i - 1, j - 1>> : j \in DOMAIN mos[i].v} : i \in DOMAIN mos}

select_video_stream(self, video_stream) ==
    IF AssertFails(video_stream >= 0 /\ video_stream < video_streams(self))
    THEN Abort(self)
    ELSE IF self.video_frame.stereo_layout = "separate"
    THEN [self EXCEPT !.media_objects = SetVideoActive(@, AllVideoPairs(@))]
    ELSE LET layout == self.video_frame.stereo_layout
             swap == self.video_frame.stereo_layout_swap
             s1 == set_stereo_layout(
                       [self EXCEPT !.active_video_stream = video_stream],
                       layout, swap, NoFail)
             p == get_video_stream(s1, s1.active_video_stream)
         IN IF s1.status # "ok" THEN s1
            ELSE [s1 EXCEPT !.media_objects = SetVideoActive(@, {<<p.o, p.s>>})]

\* A selection that marks the chosen stream active and leaves the others.
select_audio_stream_keep_others(self, audio_stream) ==
    IF AssertFails(audio_stream >= 0 /\ audio_stream < audio_streams(self))
    THEN Abort(self)
    ELSE LET s1 == [self EXCEPT !.active_audio_stream = audio_stream]
             p == get_audio_stream(s1, s1.active_audio_stream)
             others == {pr \in (0..(Len(s1.media_objects) - 1)) \X (0..(audio_streams(s1) - 1)) :
                           /\ pr[2] < mo_audio_streams(s1.media_objects[pr[1] + 1])
                           /\ s1.media_objects[pr[1] + 1].aactive[pr[2] + 1]}
         IN [s1 EXCEPT !.media_objects = SetAudioActive(@, {<<p.o, p.s>>} \cup others)]

select_audio_stream(self, audio_stream) ==
    IF AssertFails(audio_stream >= 0 /\ audio_stream < audio_streams(self))
    THEN Abort(self)
    ELSE LET s1 == [self EXCEPT !.active_audio_stream = audio_stream]
             p == get_audio_stream(s1, s1.active_audio_stream)
         IN [s1 EXCEPT !.media_objects = SetAudioActive(@, {<<p.o, p.s>>})]

\* ------------------------------------------------------------------- open
RECURSIVE Flatten(_)
Flatten(seqs) == IF seqs = << >> THEN << >> ELSE Head(seqs) \o Flatten(Tail(seqs))

RECURSIVE MinFold(_, _)
MinFold(seq, acc) ==
    IF seq = << >> THEN acc
    ELSE MinFold(Tail(seq), IF Head(seq) < acc THEN Head(seq) ELSE acc)

\* video_frame::format_info() and audio_blob::format_info().
video_format_info(t) == <<"video", ToString(t.raw_width), "x", ToString(t.raw_height)>>
audio_format_info(t) == <<"audio", ToString(t.channels), "ch", ToString(t.rate)>>

\* "Construct id for this input".
open_id(mos) ==
    Flatten([i \in DOMAIN mos |->
        IF i = 1 THEN basename(mos[i].url) ELSE <<"/">> \o basename(mos[i].url)])

\* The prefix of the i-th of n objects (0-based i): "" or "<i + 1> - ".
Pfx(n, i) == IF n = 1 THEN EmptyString ELSE <<ToString(i + 1), " - ">>

\* "Gather metadata".
open_tags(mos, field) ==
    Flatten([i \in DOMAIN mos |->
        [j \in DOMAIN mos[i].tags |-> Pfx(Len(mos), i - 1) \o mos[i].tags[j][field]]])

\* "Gather streams and stream names".
open_video_stream_names(mos) ==
    Flatten([i \in DOMAIN mos |->
        [j \in DOMAIN mos[i].v |->
            Pfx(Len(mos), i - 1) \o Pfx(mo_video_streams(mos[i]), j - 1)
                \o video_format_info(mo_video_frame_template(mos[i], j - 1))]])

open_audio_stream_names(mos) ==
    Flatten([i \in DOMAIN mos |->
        [j \in DOMAIN mos[i].a |->
            Pfx(Len(mos), i - 1) \o Pfx(mo_audio_streams(mos[i]), j - 1)
                \o audio_format_info(mo_audio_blob_template(mos[i], j - 1))]])

\* The minimum over the video streams alone.
open_duration_video_only(mos) ==
    MinFold(Flatten([i \in DOMAIN mos |->
                [j \in DOMAIN mos[i].v |-> mo_video_duration(mos[i], j - 1)]]),
            INT64_MAX)

\* "Set duration information": the running minimum, per media object over
\* its video and then its audio streams.
open_duration(mos) ==
    MinFold(Flatten([i \in DOMAIN mos |->
                [j \in DOMAIN mos[i].v |-> mo_video_duration(mos[i], j - 1)]
                \o [j \in DOMAIN mos[i].a |-> mo_audio_duration(mos[i], j - 1)]]),
            INT64_MAX)

\* The comparison of the two streams without the chroma location.
open_supports_stereo_layout_separate_no_chroma(self) ==
    IF video_streams(self) = 2
    THEN LET p0 == get_video_stream(self, 0)
             p1 == get_video_stream(self, 1)
             t0 == mo_video_frame_template(self.media_objects[p0.o + 1], p0.s)
             t1 == mo_video_frame_template(self.media_objects[p1.o + 1], p1.s)
         IN /\ t0.width = t1.width
            /\ t0.height = t1.height
            /\ (t0.aspect_ratio <= t1.aspect_ratio /\ t0.aspect_ratio >= t1.aspect_ratio)
            /\ t0.layout = t1.layout
            /\ t0.color_space = t1.color_space
            /\ t0.value_range = t1.value_range
    ELSE FALSE

\* "Find stereo layout": whether the two video streams can form a pair.
open_supports_stereo_layout_separate(self) ==
    IF video_streams(self) = 2
    THEN LET p0 == get_video_stream(self, 0)
             p1 == get_video_stream(self, 1)
             t0 == mo_video_frame_template(self.media_objects[p0.o + 1], p0.s)
             t1 == mo_video_frame_template(self.media_objects[p1.o + 1], p1.s)
         IN /\ t0.width = t1.width
            /\ t0.height = t1.height
            /\ (t0.aspect_ratio <= t1.aspect_ratio /\ t0.aspect_ratio >= t1.aspect_ratio)
            /\ t0.layout = t1.layout
            /\ t0.color_space = t1.color_space
            /\ t0.value_range = t1.value_range
            /\ t0.chroma_location = t1.chroma_location
    ELSE FALSE

\* An open that sets the index and the frame but leaves the activation of
\* the streams as the media objects opened them.
open_active_video_no_select(self) ==
    LET p == get_video_stream(self, 0)
        t == mo_video_frame_template(self.media_objects[p.o + 1], p.s)
    IN IF self.supports_stereo_layout_separate
       THEN [self EXCEPT !.active_video_stream = 0,
                         !.video_frame = [t EXCEPT !.stereo_layout = "separate"]]
       ELSE IF video_streams(self) > 0
       THEN [self EXCEPT !.active_video_stream = 0, !.video_frame = t]
       ELSE [self EXCEPT !.active_video_stream = -1]

\* "... and set active video stream(s)".
open_active_video(self) ==
    LET p == get_video_stream(self, 0)
        t == mo_video_frame_template(self.media_objects[p.o + 1], p.s)
        s1 == IF self.supports_stereo_layout_separate
              THEN [self EXCEPT !.active_video_stream = 0,
                                !.video_frame = [t EXCEPT !.stereo_layout = "separate"]]
              ELSE IF video_streams(self) > 0
              THEN [self EXCEPT !.active_video_stream = 0, !.video_frame = t]
              ELSE [self EXCEPT !.active_video_stream = -1]
    IN IF s1.active_video_stream >= 0
       THEN select_video_stream(s1, s1.active_video_stream)
       ELSE s1

\* "Set active audio stream".
open_active_audio(self) ==
    LET s1 == [self EXCEPT !.active_audio_stream =
                               IF audio_streams(self) > 0 THEN 0 ELSE -1]
        p == get_audio_stream(s1, s1.active_audio_stream)
    IN IF s1.active_audio_stream >= 0
       THEN select_audio_stream(
                [s1 EXCEPT !.audio_blob =
                    mo_audio_blob_template(s1.media_objects[p.o + 1], p.s)],
                s1.active_audio_stream)
       ELSE s1

\* "Print summary": video_frame_template() asserts an active video stream.
open_summary(self) ==
    IF AssertFails(self.active_video_stream >= 0) THEN Abort(self) ELSE self

\* open(urls), where file[i] is what urls[i] names and the open of media
\* object fail throws (NoFail: none does).
open(self, file, fail) ==
    LET n == Len(file)
        resized == [i \in 1..n |-> IF i <= Len(self.media_objects)
                                   THEN self.media_objects[i] ELSE ClosedMediaObject]
        opened(k) == [i \in 1..n |-> IF i <= k THEN mo_open(file[i], Url(i - 1))
                                     ELSE resized[i]]
    IN IF AssertFails(n > 0) THEN Abort(self)
       ELSE IF fail # NoFail
       THEN [self EXCEPT !.media_objects = opened(fail), !.status = "throw"]
       ELSE LET mos == opened(n)
                s1 == [self EXCEPT
                        !.media_objects = mos,
                        !.id = open_id(mos),
                        !.tag_names = @ \o open_tags(mos, "name"),
                        !.tag_values = @ \o open_tags(mos, "value"),
                        !.video_stream_names = @ \o open_video_stream_names(mos),
                        !.audio_stream_names = @ \o open_audio_stream_names(mos),
                        !.duration = open_duration(mos)]
                skip == str_to_int64(tag_value(s1, Str("StereoscopicSkip")))
                s2 == [s1 EXCEPT !.initial_skip = IF skip.ok THEN skip.value ELSE @]
                s3 == [s2 EXCEPT !.supports_stereo_layout_separate =
                                     open_supports_stereo_layout_separate(s2)]
                s4 == open_active_video(s3)
                s5 == IF s4.status = "ok" THEN open_active_audio(s4) ELSE s4
            IN IF s5.status = "ok" THEN open_summary(s5) ELSE s5

\* ------------------------------------------------------------------ reads
start_video_frame_read(self) ==
    IF AssertFails(self.active_video_stream >= 0) THEN Abort(self)
    ELSE IF self.video_frame.stereo_layout = "separate"
    THEN LET p0 == get_video_stream(self, 0)
             p1 == get_video_stream(self, 1)
             s1 == [self EXCEPT
                     !.media_objects[p0.o + 1] = mo_start_video_frame_read(@, p0.s),
                     !.calls = Append(@, Call("start_video_frame_read", p0.o, p0.s))]
         IN [s1 EXCEPT
                !.media_objects[p1.o + 1] = mo_start_video_frame_read(@, p1.s),
                !.calls = Append(@, Call("start_video_frame_read", p1.o, p1.s))]
    ELSE LET p == get_video_stream(self, self.active_video_stream)
         IN [self EXCEPT
                !.media_objects[p.o + 1] = mo_start_video_frame_read(@, p.s),
                !.calls = Append(@, Call("start_video_frame_read", p.o, p.s))]

\* A frame that is given up only when both streams' frames are invalid.
separate_frame_if_both_invalid(self, f0, f1) ==
    IF ~is_valid(f0) /\ ~is_valid(f1) THEN DefaultVideoFrame
    ELSE [self.video_frame EXCEPT
            !.data = <<f0.data[1], f1.data[1]>>,
            !.presentation_time = f0.presentation_time]

\* The frame finish_video_frame_read puts together from the frames f0 and
\* f1 of the two streams in layout 'separate'.
separate_frame(self, f0, f1) ==
    IF ~is_valid(f0) \/ ~is_valid(f1) THEN DefaultVideoFrame
    ELSE [self.video_frame EXCEPT
            !.data = <<f0.data[1], f1.data[1]>>,
            !.presentation_time = f0.presentation_time]

\* The frame it makes of the frame f of the one active stream otherwise.
single_frame(self, f) ==
    IF ~is_valid(f) THEN DefaultVideoFrame
    ELSE [self.video_frame EXCEPT
            !.data = <<f.data[1], @[2]>>,
            !.presentation_time = f.presentation_time]

\* finish_video_frame_read(): ok0 and ok1 say whether the media objects
\* deliver a frame.  The result is the object afterwards, with the returned
\* frame and the frames of the media objects in self.result.
\* A finish that, in layout 'separate', gives up as soon as the first
\* stream's frame is invalid and leaves the read of the second unfinished.
finish_video_frame_read_first_invalid(self, ok0, ok1) ==
    IF AssertFails(self.active_video_stream >= 0) THEN Abort(self)
    ELSE IF self.video_frame.stereo_layout = "separate"
    THEN LET p0 == get_video_stream(self, 0)
             p1 == get_video_stream(self, 1)
             r0 == mo_finish_video_frame_read(self.media_objects[p0.o + 1], p0.s, ok0)
             s1 == [self EXCEPT
                     !.media_objects[p0.o + 1] = r0.m,
                     !.calls = Append(@, Call("finish_video_frame_read", p0.o, p0.s))]
             r1 == mo_finish_video_frame_read(s1.media_objects[p1.o + 1], p1.s, ok1)
         IN IF ~is_valid(r0.frame)
            THEN [s1 EXCEPT
                    !.result = [op |-> "finish_video_frame_read",
                                frame |-> DefaultVideoFrame,
                                sub |-> <<r0.frame, DefaultVideoFrame>>]]
            ELSE [s1 EXCEPT
                    !.media_objects[p1.o + 1] = r1.m,
                    !.calls = Append(@, Call("finish_video_frame_read", p1.o, p1.s)),
                    !.result = [op |-> "finish_video_frame_read",
                                frame |-> separate_frame(self, r0.frame, r1.frame),
                                sub |-> <<r0.frame, r1.frame>>]]
    ELSE LET p == get_video_stream(self, self.active_video_stream)
             r == mo_finish_video_frame_read(self.media_objects[p.o + 1], p.s, ok0)
         IN [self EXCEPT
                !.media_objects[p.o + 1] = r.m,
                !.calls = Append(@, Call("finish_video_frame_read", p.o, p.s)),
                !.result = [op |-> "finish_video_frame_read",
                            frame |-> single_frame(self, r.frame),
                            sub |-> <<r.frame>>]]

finish_video_frame_read(self, ok0, ok1) ==
    IF AssertFails(self.active_video_stream >= 0) THEN Abort(self)
    ELSE IF self.video_frame.stereo_layout = "separate"
    THEN LET p0 == get_video_stream(self, 0)
             p1 == get_video_stream(self, 1)
             r0 == mo_finish_video_frame_read(self.media_objects[p0.o + 1], p0.s, ok0)
             s1 == [self EXCEPT
                     !.media_objects[p0.o + 1] = r0.m,
                     !.calls = Append(@, Call("finish_video_frame_read", p0.o, p0.s))]
             r1 == mo_finish_video_frame_read(s1.media_objects[p1.o + 1], p1.s, ok1)
         IN [s1 EXCEPT
                !.media_objects[p1.o + 1] = r1.m,
                !.calls = Append(@, Call("finish_video_frame_read", p1.o, p1.s)),
                !.result = [op |-> "finish_video_frame_read",
                            frame |-> separate_frame(self, r0.frame, r1.frame),
                            sub |-> <<r0.frame, r1.frame>>]]
    ELSE LET p == get_video_stream(self, self.active_video_stream)
             r == mo_finish_video_frame_read(self.media_objects[p.o + 1], p.s, ok0)
         IN [self EXCEPT
                !.media_objects[p.o + 1] = r.m,
                !.calls = Append(@, Call("finish_video_frame_read", p.o, p.s)),
                !.result = [op |-> "finish_video_frame_read",
                            frame |-> single_frame(self, r.frame),
                            sub |-> <<r.frame>>]]

start_audio_blob_read(self) ==
    IF AssertFails(self.active_audio_stream >= 0) THEN Abort(self)
    ELSE LET p == get_audio_stream(self, self.active_audio_stream)
         IN [self EXCEPT
                !.media_objects[p.o + 1] = mo_start_audio_blob_read(@, p.s),
                !.calls = Append(@, Call("start_audio_blob_read", p.o, p.s))]

finish_audio_blob_read(self, ok) ==
    IF AssertFails(self.active_audio_stream >= 0) THEN Abort(self)
    ELSE LET p == get_audio_stream(self, self.active_audio_stream)
             r == mo_finish_audio_blob_read(self.media_objects[p.o + 1], p.s, ok)
         IN [self EXCEPT
                !.media_objects[p.o + 1] = r.m,
                !.calls = Append(@, Call("finish_audio_blob_read", p.o, p.s)),
                !.result = [op |-> "finish_audio_blob_read", blob |-> r.blob]]

\* ------------------------------------------------------------------ close
\* A close that forgets the values computed from the tags and the streams.
close_keep_computed(self) ==
    [self EXCEPT
        !.id = EmptyString,
        !.calls = [i \in DOMAIN self.media_objects |-> Call("close", i - 1, 0)],
        !.media_objects = << >>,
        !.tag_names = << >>, !.tag_values = << >>,
        !.video_stream_names = << >>, !.audio_stream_names = << >>,
        !.active_video_stream = -1, !.active_audio_stream = -1,
        !.video_frame = DefaultVideoFrame, !.audio_blob = DefaultAudioBlob]

close(self) ==
    [self EXCEPT
        !.id = EmptyString,
        !.calls = [i \in DOMAIN self.media_objects |-> Call("close", i - 1, 0)],
        !.media_objects = << >>,
        !.tag_names = << >>, !.tag_values = << >>,
        !.video_stream_names = << >>, !.audio_stream_names = << >>,
        !.active_video_stream = -1, !.active_audio_stream = -1,
        !.initial_skip = 0, !.duration = -1,
        !.video_frame = DefaultVideoFrame, !.audio_blob = DefaultAudioBlob]

\* ------------------------------------------------------ the state machine
\* The object at the start of an operation.
Self ==
    [id |-> id, media_objects |-> media_objects,
     tag_names |-> tag_names, tag_values |-> tag_values,
     video_stream_names |-> video_stream_names,
     audio_stream_names |-> audio_stream_names,
     active_video_stream |-> active_video_stream,
     active_audio_stream |-> active_audio_stream,
     video_frame |-> video_frame, audio_blob |-> audio_blob,
     initial_skip |-> initial_skip, duration |-> duration,
     supports_stereo_layout_separate |-> supports_stereo_layout_separate,
     status |-> "ok", calls |-> << >>, result |-> [op |-> "none"]]

\* The operation leaves the object as r.
Becomes(r) ==
    /\ id' = r.id
    /\ media_objects' = r.media_objects
    /\ tag_names' = r.tag_names
    /\ tag_values' = r.tag_values
    /\ video_stream_names' = r.video_stream_names
    /\ audio_stream_names' = r.audio_stream_names
    /\ active_video_stream' = r.active_video_stream
    /\ active_audio_stream' = r.active_audio_stream
    /\ video_frame' = r.video_frame
    /\ audio_blob' = r.audio_blob
    /\ initial_skip' = r.initial_skip
    /\ duration' = r.duration
    /\ supports_stereo_layout_separate' = r.supports_stereo_layout_separate
    /\ status' = r.status
    /\ calls' = r.calls
    /\ result' = r.result
    /\ UNCHANGED ndebug

Init ==
    /\ ndebug \in BOOLEAN
    /\ \E supports \in BOOLEAN :
        LET r == media_input(supports)
        IN /\ id = r.id
           /\ media_objects = r.media_objects
           /\ tag_names = r.tag_names
           /\ tag_values = r.tag_values
           /\ video_stream_names = r.video_stream_names
           /\ audio_stream_names = r.audio_stream_names
           /\ active_video_stream = r.active_video_stream
           /\ active_audio_stream = r.active_audio_stream
           /\ video_frame = r.video_frame
           /\ audio_blob = r.audio_blob
           /\ initial_skip = r.initial_skip
           /\ duration = r.duration
           /\ supports_stereo_layout_separate = r.supports_stereo_layout_separate
           /\ status = r.status
           /\ calls = r.calls
           /\ result = [op |-> "none"]

\* What the callers of the object keep to (spec sections 3, 5 and 7): no
\* call after an abort; open only on a closed object; everything but close
\* only on an open one; one read in flight at a time, and no change of the
\* configuration, seek or close while it is.
Running == status # "abort"
IsClosed == media_objects = << >>
IsOpen ==
    /\ media_objects # << >>
    /\ \A i \in DOMAIN media_objects : media_objects[i].is_open
VideoReading ==
    \E i \in DOMAIN media_objects :
        \E j \in DOMAIN media_objects[i].vreading : media_objects[i].vreading[j]
AudioReading ==
    \E i \in DOMAIN media_objects :
        \E j \in DOMAIN media_objects[i].areading : media_objects[i].areading[j]
Idle == ~VideoReading /\ ~AudioReading

Open(file, fail) ==
    /\ Running /\ IsClosed
    /\ Becomes(open(Self, file, fail))

Close ==
    /\ Running /\ Idle
    /\ Becomes(close(Self))

SetStereoLayout(layout, swap, fail) ==
    /\ Running /\ IsOpen /\ Idle
    /\ stereo_layout_is_supported(Self, layout, swap)
    /\ Becomes(set_stereo_layout(Self, layout, swap, fail))

SelectVideoStream(video_stream) ==
    /\ Running /\ IsOpen /\ Idle
    /\ video_stream >= 0 /\ video_stream < video_streams(Self)
    /\ Becomes(select_video_stream(Self, video_stream))

SelectAudioStream(audio_stream) ==
    /\ Running /\ IsOpen /\ Idle
    /\ audio_stream >= 0 /\ audio_stream < audio_streams(Self)
    /\ Becomes(select_audio_stream(Self, audio_stream))

StartVideoFrameRead ==
    /\ Running /\ IsOpen /\ Idle
    /\ active_video_stream >= 0
    /\ Becomes(start_video_frame_read(Self))

FinishVideoFrameRead(ok0, ok1) ==
    /\ Running /\ IsOpen /\ VideoReading
    /\ Becomes(finish_video_frame_read(Self, ok0, ok1))

StartAudioBlobRead ==
    /\ Running /\ IsOpen /\ Idle
    /\ active_audio_stream >= 0
    /\ Becomes(start_audio_blob_read(Self))

FinishAudioBlobRead(ok) ==
    /\ Running /\ IsOpen /\ AudioReading
    /\ Becomes(finish_audio_blob_read(Self, ok))

Seek(pos, fail) ==
    /\ Running /\ IsOpen /\ Idle
    /\ Becomes(seek(Self, pos, fail))

\* The media object whose seek or open may throw: one of the first n, or none.
Fails(n) == {NoFail} \cup 0..(n - 1)

Next ==
    \/ \E file \in Configs : \E fail \in Fails(Len(file)) : Open(file, fail)
    \/ Close
    \/ \E layout \in StereoLayouts : \E swap \in BOOLEAN :
         \E fail \in (IF layout = "separate" THEN Fails(Len(media_objects)) ELSE {NoFail}) :
            SetStereoLayout(layout, swap, fail)
    \/ \E k \in 0..(MaxVideoStreams - 1) : SelectVideoStream(k)
    \/ \E k \in 0..(MaxAudioStreams - 1) : SelectAudioStream(k)
    \/ StartVideoFrameRead
    \/ \E ok0 \in BOOLEAN : \E ok1 \in BOOLEAN : FinishVideoFrameRead(ok0, ok1)
    \/ StartAudioBlobRead
    \/ \E ok \in BOOLEAN : FinishAudioBlobRead(ok)
    \/ \E pos \in 0..MaxPos : \E fail \in Fails(Len(media_objects)) : Seek(pos, fail)

Spec == Init /\ [][Next]_vars

\* ------------------------------------------- the formats of video streams
\* Video frame templates that differ from TemplateA in one field: each of
\* the fields open compares for 'separate', and the raw width and the raw
\* height made odd.
TemplateVariants ==
    {TemplateA,
     [TemplateA EXCEPT !.width = 6],
     [TemplateA EXCEPT !.height = 6],
     [TemplateA EXCEPT !.aspect_ratio = 2],
     [TemplateA EXCEPT !.layout = "yuv444p"],
     [TemplateA EXCEPT !.color_space = "yuv709"],
     [TemplateA EXCEPT !.value_range = "u8_full"],
     [TemplateA EXCEPT !.chroma_location = "left"],
     [TemplateA EXCEPT !.raw_width = 5],
     [TemplateA EXCEPT !.raw_height = 5]}

\* A file with one video stream of template t.
VideoFile(t) ==
    [v |-> <<[t |-> t, d |-> 10, fr |-> Rate25]>>, a |-> << >>, tags |-> << >>]

\* Inputs of two video streams of which one is a variant, in either order,
\* and inputs with one, with three and with no video stream.
FormatConfigs ==
    {<<VideoFile(TemplateA), VideoFile(t)>> : t \in TemplateVariants}
    \cup {<<VideoFile(t), VideoFile(TemplateA)>> : t \in TemplateVariants}
    \cup {<<VideoFile(TemplateA)>>, <<FileTwo>>, <<FileAudio>>,
          <<VideoFile(TemplateA), VideoFile(TemplateA), VideoFile(TemplateA)>>}

\* The object opened on these inputs, with layouts set and streams selected.
NextFormats ==
    \/ \E file \in FormatConfigs : Open(file, NoFail)
    \/ Close
    \/ \E layout \in StereoLayouts : \E swap \in BOOLEAN :
         SetStereoLayout(layout, swap, NoFail)
    \/ \E k \in 0..(MaxVideoStreams - 1) : SelectVideoStream(k)

SpecFormats == Init /\ [][NextFormats]_vars

\* ------------------------------------------------------------- accessors
video_frame_template(self) == self.video_frame
audio_blob_template(self) == self.audio_blob

\* The frame rate queries: the outcomes the call can have.  The media
\* object is taken at the index of the stream within its media object.
video_frame_rate_numerator(self) ==
    IF AssertFails(self.active_video_stream >= 0) THEN {Crash}
    ELSE LET p == get_video_stream(self, self.active_video_stream)
         IN IF p.s >= 0 /\ p.s < Len(self.media_objects)
            THEN mo_video_frame_rate_numerator(self.media_objects[p.s + 1], p.s)
            ELSE Undefined

video_frame_rate_denominator(self) ==
    IF AssertFails(self.active_video_stream >= 0) THEN {Crash}
    ELSE LET p == get_video_stream(self, self.active_video_stream)
         IN IF p.s >= 0 /\ p.s < Len(self.media_objects)
            THEN mo_video_frame_rate_denominator(self.media_objects[p.s + 1], p.s)
            ELSE Undefined

\* denominator * 1000000 / numerator; a division by zero ends the process.
video_frame_duration(self) ==
    IF AssertFails(self.active_video_stream >= 0) THEN {Crash}
    ELSE {IF den.crash \/ num.crash \/ num.value = 0 THEN Crash
          ELSE Outcome((den.value * 1000000) \div num.value) :
            <<den, num>> \in video_frame_rate_denominator(self)
                             \X video_frame_rate_numerator(self)}

\* ---------------------------------------------------------- observations
\* The (media object, stream) pairs marked active.
ActiveVideoPairs ==
    {pr \in (0..(Len(media_objects) - 1)) \X (0..(MaxVideoStreams - 1)) :
        /\ pr[2] < mo_video_streams(media_objects[pr[1] + 1])
        /\ media_objects[pr[1] + 1].vactive[pr[2] + 1]}
ActiveAudioPairs ==
    {pr \in (0..(Len(media_objects) - 1)) \X (0..(MaxAudioStreams - 1)) :
        /\ pr[2] < mo_audio_streams(media_objects[pr[1] + 1])
        /\ media_objects[pr[1] + 1].aactive[pr[2] + 1]}
\* The pair a global index resolves to.
VideoPair(g) == LET p == get_video_stream(Self, g) IN <<p.o, p.s>>
AudioPair(g) == LET p == get_audio_stream(Self, g) IN <<p.o, p.s>>
VideoTemplateOf(g) ==
    LET p == get_video_stream(Self, g)
    IN mo_video_frame_template(media_objects[p.o + 1], p.s)
AudioTemplateOf(g) ==
    LET p == get_audio_stream(Self, g)
    IN mo_audio_blob_template(media_objects[p.o + 1], p.s)
Layout == video_frame.stereo_layout

\* ------------------------------------------------------------------ claims

\* C1: while the input is open, the active video streams are none, or just
\* the one at active_video_stream in a layout other than 'separate', or the
\* two at global indices 0 and 1 in layout 'separate'.
C1_ActiveVideoShape ==
    (Running /\ IsOpen) =>
        \/ ActiveVideoPairs = {}
        \/ /\ active_video_stream >= 0
           /\ ActiveVideoPairs = {VideoPair(active_video_stream)}
           /\ Layout # "separate"
        \/ /\ video_streams(Self) >= 2
           /\ ActiveVideoPairs = {VideoPair(0), VideoPair(1)}
           /\ Layout = "separate"

\* C2: after select_audio_stream(k), the audio format accessor returns the
\* template of the stream that get_audio_stream(k) yields.
C2_SelectAudioAdoptsTemplate ==
    [][\A k \in 0..(MaxAudioStreams - 1) :
          SelectAudioStream(k) =>
              (status' = "ok" => audio_blob' = AudioTemplateOf(k))]_vars

\* C3: in layout 'separate' the frame finish_video_frame_read returns is
\* valid exactly when both streams' frames are, then carries the data of
\* both, and is otherwise the invalid frame with no view filled.
C3_SeparateFrameAllOrNothing ==
    (result.op = "finish_video_frame_read" /\ Layout = "separate") =>
        LET f0 == result.sub[1]
            f1 == result.sub[2]
            frame == result.frame
        IN /\ is_valid(frame) <=> (is_valid(f0) /\ is_valid(f1))
           /\ is_valid(frame) =>
                /\ frame.data = <<f0.data[1], f1.data[1]>>
                /\ frame.data[1] # "null" /\ frame.data[2] # "null"
           /\ ~is_valid(frame) => frame.data = <<"null", "null">>

C3_Witness ==
    /\ result.op = "finish_video_frame_read" /\ Layout = "separate"
    /\ is_valid(result.sub[1]) /\ ~is_valid(result.sub[2])

\* C4: set_stereo_layout(separate, swap) seeks every media object to the
\* position of the one that holds global video stream 0, unless that
\* position is the sentinel, and then it does not seek.
C4_SeparateSeeksToFirstStream ==
    [][\A swap \in BOOLEAN :
          SetStereoLayout("separate", swap, NoFail) =>
              LET pos == mo_tell(media_objects[VideoPair(0)[1] + 1])
              IN IF pos > INT64_MIN
                 THEN \A i \in DOMAIN media_objects : media_objects'[i].pos = pos
                 ELSE calls' = << >>]_vars

\* C5: a seek that does not throw has called seek(p) on every media object,
\* in their order, and leaves every one of them at p.
C5_SeekReachesEverySource ==
    (status = "ok" /\ calls # << >> /\ calls[1].op = "seek") =>
        /\ calls = [i \in DOMAIN media_objects |-> Call("seek", i - 1, calls[1].arg)]
        /\ \A i \in DOMAIN media_objects : media_objects[i].pos = calls[1].arg

\* A seek went to a media object none of whose streams is active.
C5_Witness ==
    /\ status = "ok" /\ calls # << >> /\ calls[1].op = "seek"
    /\ \E i \in DOMAIN media_objects :
        /\ mo_video_streams(media_objects[i]) > 0
        /\ \A j \in DOMAIN media_objects[i].vactive : ~media_objects[i].vactive[j]
        /\ \A j \in DOMAIN media_objects[i].aactive : ~media_objects[i].aactive[j]
        /\ media_objects[i].pos = MaxPos

\* C6: in layout 'separate', select_video_stream(k) changes neither the
\* streams marked active (both of the pair, before and after), nor
\* active_video_stream, nor the current video format.
C6_SelectVideoInSeparateChangesNothing ==
    [][\A k \in 0..(MaxVideoStreams - 1) :
          (Layout = "separate" /\ SelectVideoStream(k)) =>
              /\ ActiveVideoPairs = {VideoPair(0), VideoPair(1)}
              /\ ActiveVideoPairs' = ActiveVideoPairs
              /\ active_video_stream' = active_video_stream
              /\ video_frame' = video_frame]_vars

\* C7: in another layout, select_video_stream(k) fails no assertion and
\* leaves stream k the only active one, active_video_stream = k and the
\* format that of stream k's template with layout and swap as before.
C7_SelectVideoCompletes ==
    [][\A k \in 0..(MaxVideoStreams - 1) :
          (Layout # "separate" /\ SelectVideoStream(k)) =>
              /\ status' = "ok"
              /\ active_video_stream' = k
              /\ video_frame' = set_view_dimensions(
                     [VideoTemplateOf(k) EXCEPT
                        !.stereo_layout = video_frame.stereo_layout,
                        !.stereo_layout_swap = video_frame.stereo_layout_swap])
              /\ ActiveVideoPairs' = {VideoPair(k)}]_vars

\* C8: a current format of layout 'separate' implies that separate stereo
\* is supported.
C8_SeparateImpliesSupported ==
    Layout = "separate" => supports_stereo_layout_separate

\* Layout 'separate' was chosen by set_stereo_layout: open() never leaves it
\* with active_video_stream = 1.
C8_Witness ==
    Layout = "separate" /\ active_video_stream = 1 /\ status = "ok"

\* C9: while an input with an audio stream is open, exactly one audio
\* stream is marked active: the one active_audio_stream resolves to.
C9_OneActiveAudio ==
    (IsOpen /\ audio_streams(Self) > 0) =>
        /\ active_audio_stream >= 0 /\ active_audio_stream < audio_streams(Self)
        /\ ActiveAudioPairs = {AudioPair(active_audio_stream)}

\* The second audio stream, of the second media object, was selected after
\* the video selection and the position changed.
C9_Witness ==
    /\ IsOpen /\ status = "ok"
    /\ active_audio_stream = 1 /\ AudioPair(1) = <<1, 0>>
    /\ active_video_stream = 1
    /\ media_objects[1].pos = MaxPos

\* C10: while the input is open, duration is the least duration of all
\* video and audio streams of all media objects.
AllDurations ==
    UNION {{media_objects[i].v[j].d : j \in DOMAIN media_objects[i].v}
           \cup {media_objects[i].a[j].d : j \in DOMAIN media_objects[i].a}
           : i \in DOMAIN media_objects}
C10_DurationIsMinimum ==
    (IsOpen /\ AllDurations # {}) =>
        /\ duration \in AllDurations
        /\ \A d \in AllDurations : duration <= d

\* The shortest stream is an audio stream that is not active, and streams
\* were selected and frames read since open.
C10_Witness ==
    /\ IsOpen /\ status = "ok"
    /\ duration = 5 /\ active_audio_stream = 0
    /\ audio_streams(Self) = 2 /\ mo_audio_duration(media_objects[AudioPair(1)[1] + 1], AudioPair(1)[2]) = 5
    /\ active_video_stream = 1
    /\ result.op = "finish_video_frame_read"

\* C11: close puts the object back into the state it had before open:
\* empty id, no media object held (each one that was held is closed once),
\* no tags and no stream names, no active video or audio stream, initial
\* skip 0 and duration -1, default frame and blob. A close of an object
\* that is already closed changes none of its attributes and closes no
\* media object.
C11_CloseResets ==
    [][Close =>
        /\ id' = EmptyString
        /\ media_objects' = << >>
        /\ tag_names' = << >> /\ tag_values' = << >>
        /\ video_stream_names' = << >> /\ audio_stream_names' = << >>
        /\ active_video_stream' = -1 /\ active_audio_stream' = -1
        /\ initial_skip' = 0 /\ duration' = -1
        /\ video_frame' = DefaultVideoFrame /\ audio_blob' = DefaultAudioBlob
        /\ status' = "ok"
        /\ calls' = [i \in DOMAIN media_objects |-> Call("close", i - 1, 0)]
        /\ IsClosed =>
            /\ calls' = << >>
            /\ UNCHANGED <<id, media_objects, tag_names, tag_values,
                           video_stream_names, audio_stream_names,
                           active_video_stream, active_audio_stream,
                           video_frame, audio_blob, initial_skip, duration,
                           supports_stereo_layout_separate>>]_vars

\* A closed object whose close closed two media objects.
C11_Witness ==
    /\ IsClosed /\ status = "ok"
    /\ Len(calls) = 2
    /\ \A i \in DOMAIN calls : calls[i] = Call("close", i - 1, 0)
    /\ initial_skip = 0 /\ duration = -1

\* C12: when the open of one media object fails, open fails as a whole
\* and leaves no partial input: the object holds no opened media object
\* (those opened before the failing one are not left open in it) and every
\* attribute is still at its value from before open.
C12_FailedOpenLeavesNothing ==
    [][\A file \in Configs : \A fail \in 0..(Len(file) - 1) :
        Open(file, fail) =>
            /\ status' = "throw"
            /\ \A i \in DOMAIN media_objects' : ~media_objects'[i].is_open
            /\ id' = EmptyString
            /\ tag_names' = << >> /\ tag_values' = << >>
            /\ video_stream_names' = << >> /\ audio_stream_names' = << >>
            /\ active_video_stream' = -1 /\ active_audio_stream' = -1
            /\ initial_skip' = 0 /\ duration' = -1]_vars

\* The (media object, stream) pairs of all video and of all audio streams,
\* media objects in increasing order and, within one, streams in increasing
\* order.
FlatVideoPairs ==
    Flatten([i \in DOMAIN media_objects |->
        [j \in 1..mo_video_streams(media_objects[i]) |-> <<i - 1, j - 1>>]])
FlatAudioPairs ==
    Flatten([i \in DOMAIN media_objects |->
        [j \in 1..mo_audio_streams(media_objects[i]) |-> <<i - 1, j - 1>>]])

C14_ResolveIsFlatOrder ==
    IsOpen =>
        /\ video_streams(Self) = Sum([i \in DOMAIN media_objects |->
                                        mo_video_streams(media_objects[i])])
        /\ audio_streams(Self) = Sum([i \in DOMAIN media_objects |->
                                        mo_audio_streams(media_objects[i])])
        /\ Len(FlatVideoPairs) = video_streams(Self)
        /\ Len(FlatAudioPairs) = audio_streams(Self)
        /\ \A g \in 0..(video_streams(Self) - 1) : VideoPair(g) = FlatVideoPairs[g + 1]
        /\ \A g \in 0..(audio_streams(Self) - 1) : AudioPair(g) = FlatAudioPairs[g + 1]

\* The first media object has no video stream and the second no audio
\* stream, so index 0 of either kind resolves past an empty media object.
C14_Witness ==
    /\ IsOpen /\ status = "ok" /\ Len(media_objects) = 2
    /\ mo_video_streams(media_objects[1]) = 0
    /\ mo_audio_streams(media_objects[2]) = 0
    /\ video_streams(Self) = 1 /\ audio_streams(Self) = 1
    /\ VideoPair(0) = <<1, 0>> /\ AudioPair(0) = <<0, 0>>

\* The template of the video stream of global index g, looked up in the
\* list of all video streams.
FlatVideoTemplate(g) ==
    LET pr == FlatVideoPairs[g + 1]
    IN mo_video_frame_template(media_objects[pr[1] + 1], pr[2])

\* C15: stereo_layout_is_supported is false when there is no active video
\* stream; otherwise, with t the template of the active video stream, it is
\* true exactly when none of these holds: the layout is left_right or
\* left_right_half and t's raw width is odd; the layout is top_bottom,
\* top_bottom_half or even_odd_rows and t's raw height is odd; the layout
\* is 'separate' and separate is not supported. The swap flag plays no
\* part, and the answer follows the active stream through every
\* select_video_stream.
C15_LayoutSupportRule ==
    \A layout \in StereoLayouts : \A swap \in BOOLEAN :
        stereo_layout_is_supported(Self, layout, swap) =
            IF active_video_stream < 0 THEN FALSE
            ELSE LET t == FlatVideoTemplate(active_video_stream)
                 IN /\ ~(layout \in {"left_right", "left_right_half"}
                         /\ t.raw_width % 2 = 1)
                    /\ ~(layout \in {"top_bottom", "top_bottom_half", "even_odd_rows"}
                         /\ t.raw_height % 2 = 1)
                    /\ ~(layout = "separate" /\ ~supports_stereo_layout_separate)

\* The second video stream was selected; its raw height is odd and that of
\* the first is even, so the layouts split by height are not supported
\* while those split by width are.
C15_Witness ==
    /\ IsOpen /\ status = "ok" /\ Len(FlatVideoPairs) = 2
    /\ active_video_stream = 1
    /\ FlatVideoTemplate(1).raw_height % 2 = 1
    /\ FlatVideoTemplate(0).raw_height % 2 = 0
    /\ ~stereo_layout_is_supported(Self, "top_bottom", TRUE)
    /\ ~stereo_layout_is_supported(Self, "even_odd_rows", FALSE)
    /\ stereo_layout_is_supported(Self, "left_right", FALSE)

\* The video stream of global index g is being read.
VideoReadingOf(g) ==
    LET pr == FlatVideoPairs[g + 1]
    IN media_objects[pr[1] + 1].vreading[pr[2] + 1]

\* C16: in layout 'separate', start_video_frame_read starts a read on both
\* video streams 0 and 1, in this order, before anything is finished; the
\* finish_video_frame_read that follows finishes a read on both, whether
\* or not the first stream's frame is valid. So each read a finish ends
\* was started by the start before it, and no started read is pending when
\* finish returns.
C16_SeparateReadsPaired ==
    [][/\ (Layout = "separate" /\ StartVideoFrameRead) =>
            /\ status' = "ok"
            /\ calls' = <<Call("start_video_frame_read",
                               FlatVideoPairs[1][1], FlatVideoPairs[1][2]),
                          Call("start_video_frame_read",
                               FlatVideoPairs[2][1], FlatVideoPairs[2][2])>>
            /\ VideoReadingOf(0)' /\ VideoReadingOf(1)'
       /\ (Layout = "separate"
           /\ \E ok0 \in BOOLEAN : \E ok1 \in BOOLEAN : FinishVideoFrameRead(ok0, ok1)) =>
            /\ VideoReadingOf(0) /\ VideoReadingOf(1)
            /\ status' = "ok"
            /\ calls' = <<Call("finish_video_frame_read",
                               FlatVideoPairs[1][1], FlatVideoPairs[1][2]),
                          Call("finish_video_frame_read",
                               FlatVideoPairs[2][1], FlatVideoPairs[2][2])>>
            /\ ~VideoReading']_vars

\* A finish in layout 'separate' whose first stream had no frame while the
\* second had one: both reads were finished.
C16_Witness ==
    /\ IsOpen /\ status = "ok" /\ Layout = "separate"
    /\ result.op = "finish_video_frame_read" /\ Len(result.sub) = 2
    /\ ~is_valid(result.sub[1]) /\ is_valid(result.sub[2])
    /\ Len(calls) = 2 /\ calls[2].op = "finish_video_frame_read"
    /\ ~VideoReading

\* The fields of the templates that two video streams must agree on.
PairFields ==
    {"width", "height", "layout", "color_space", "value_range",
     "chroma_location", "aspect_ratio"}

\* The fields of PairFields on which video streams 0 and 1 differ.
PairDifference ==
    {f \in PairFields : FlatVideoTemplate(0)[f] # FlatVideoTemplate(1)[f]}

\* C17: while the input is open, 'separate' is supported exactly when the
\* input has exactly two video streams and their templates agree on
\* width, height, pixel layout, color space, value range, chroma location
\* and aspect ratio; a difference in any one of these fields makes it
\* unsupported, and then stereo_layout_is_supported denies 'separate' with
\* either swap.
C17_SeparateNeedsEqualPair ==
    IsOpen =>
        /\ supports_stereo_layout_separate =
               (Len(FlatVideoPairs) = 2 /\ PairDifference = {})
        /\ ~supports_stereo_layout_separate =>
               \A swap \in BOOLEAN : ~stereo_layout_is_supported(Self, "separate", swap)

\* Two video streams whose templates differ in the chroma location only.
C17_Witness ==
    /\ IsOpen /\ status = "ok" /\ Len(FlatVideoPairs) = 2
    /\ PairDifference = {"chroma_location"}
    /\ ~supports_stereo_layout_separate
    /\ ~stereo_layout_is_supported(Self, "separate", FALSE)
    /\ ~stereo_layout_is_supported(Self, "separate", TRUE)

\* C18: when the seek of media object i fails during seek(pos), this first
\* failure ends the call as one error: the media objects before i were
\* each asked to seek to pos, once and in order, and are at pos; i was
\* asked and failed; no media object after i was asked or moved; and none
\* of those before i was moved back.
C18_SeekStopsAtFailure ==
    [][\A pos \in 0..MaxPos : \A fail \in 0..(Len(media_objects) - 1) :
        Seek(pos, fail) =>
            /\ status' = "throw"
            /\ calls' = [k \in 1..(fail + 1) |-> Call("seek", k - 1, pos)]
            /\ Len(media_objects') = Len(media_objects)
            /\ \A k \in 1..fail :
                   media_objects'[k] = [media_objects[k] EXCEPT !.pos = pos]
            /\ \A k \in (fail + 2)..Len(media_objects) :
                   media_objects'[k] = media_objects[k]
            /\ UNCHANGED <<id, tag_names, tag_values, active_video_stream,
                           active_audio_stream, video_frame, audio_blob,
                           initial_skip, duration>>]_vars

\* A seek to position 1 failed at the second of two media objects: the
\* first is at position 1 and the second is not.
C18_Witness ==
    /\ status = "throw" /\ Len(media_objects) = 2
    /\ calls = <<Call("seek", 0, 1), Call("seek", 1, 1)>>
    /\ media_objects[1].pos = 1
    /\ media_objects[2].pos # 1

\* C19: every read start_video_frame_read starts on a media object is on
\* a video stream that is marked active at that time; in particular in
\* layout 'separate' both video streams 0 and 1 are active when read,
\* also after set_stereo_layout(mono), select_video_stream(1),
\* set_stereo_layout(separate).
C19_StartedStreamsAreActive ==
    (status = "ok" /\ calls # << >> /\ calls[1].op = "start_video_frame_read") =>
        \A k \in DOMAIN calls : <<calls[k].o, calls[k].arg>> \in ActiveVideoPairs

\* The frame rate of the video stream of global index g, looked up in the
\* list of all video streams.
FlatVideoRate(g) ==
    LET pr == FlatVideoPairs[g + 1]
    IN media_objects[pr[1] + 1].v[pr[2] + 1].fr

\* C20: while the input is open with an active video stream, the frame
\* rate queries answer for the active stream: the numerator and the
\* denominator are those of the (media object, stream) pair the active
\* index resolves to, and the frame duration is derived from them; no
\* query reads a media object at the index of a stream or outside the
\* vector of media objects.
C20_FrameRateOfActiveStream ==
    (IsOpen /\ status = "ok" /\ active_video_stream >= 0) =>
        LET fr == FlatVideoRate(active_video_stream)
        IN /\ video_frame_rate_numerator(Self) = {Outcome(fr.num)}
           /\ video_frame_rate_denominator(Self) = {Outcome(fr.den)}
           /\ video_frame_duration(Self) = {Outcome((fr.den * 1000000) \div fr.num)}

====
